---- MODULE Spec2Model ----
(***************************************************************************)
(* Model of the drug recommendation server: the DrugPredictor of           *)
(* src/models/drug_predictor.py (initialization state machine, prediction, *)
(* status reporting) as driven by concurrent request threads.              *)
(*                                                                         *)
(* Python's None is the empty sequence <<>> and a present value x is <<x>>.*)
(* Text is a sequence of one-character strings.  Similarity scores are     *)
(* integers in units of 1/ScoreScale.                                      *)
(***************************************************************************)
EXTENDS Integers, Sequences, FiniteSets, TLC

\* -------------------------------------------------------------------------
\* Bounds of the model
\* -------------------------------------------------------------------------
NumCallers == 2        \* concurrent request threads
MaxInitCalls == 3      \* initialize is called at most this many times
MaxBuilds == 2         \* calls that can start a build are made for at most this many builds
MaxTime == 2           \* the clock runs from 1 to MaxTime
MaxTopK == 5           \* predict is called with top_k in 1..MaxTopK

Callers == 1..NumCallers
\* every background call creates at most one Thread object
Threads == (NumCallers + 1)..(NumCallers + MaxInitCalls)
Procs == Callers \cup Threads

None == <<>>
Some(x) == <<x>>

ScoreScale == 10 * 10000

\* -------------------------------------------------------------------------
\* Text
\* -------------------------------------------------------------------------
IsSpace(ch) == ch \in {" ", "\t", "\n"}

RECURSIVE LStrip(_)
LStrip(s) == IF s = <<>> THEN s
             ELSE IF IsSpace(Head(s)) THEN LStrip(Tail(s)) ELSE s

RECURSIVE RStrip(_)
RStrip(s) == IF s = <<>> THEN s
             ELSE IF IsSpace(s[Len(s)]) THEN RStrip(SubSeq(s, 1, Len(s) - 1)) ELSE s

\* str.strip()
Strip(s) == RStrip(LStrip(s))

\* the query without .strip()
QueryUnstripped(keluhan, anamnesa) == keluhan \o <<" ">> \o anamnesa

\* f"{keluhan} {anamnesa}".strip()
Query(keluhan, anamnesa) == Strip(keluhan \o <<" ">> \o anamnesa)

\* Nama + ' - ' + DeskripsiObat
ObatLengkap(row) == row.Nama \o <<" ", "-", " ">> \o row.DeskripsiObat

\* -------------------------------------------------------------------------
\* The embedding provider and cosine similarity
\* -------------------------------------------------------------------------
HasChar(s, ch) == \E i \in 1..Len(s) : s[i] = ch

\* SentenceTransformer.encode for one text: a fixed function of the text.
Encode(text) ==
    CASE HasChar(text, "a") -> <<4, 3>>
      [] HasChar(text, "b") -> <<4, -3>>
      [] HasChar(text, "c") -> <<3, 4>>
      [] HasChar(text, "d") -> <<0, 5>>
      [] HasChar(text, "f") -> <<5, 0>>
      [] OTHER -> <<0, 0>>

EncodeAll(texts) == [i \in 1..Len(texts) |-> Encode(texts[i])]

Dot(u, v) == u[1] * v[1] + u[2] * v[2]

Norm(v) == CHOOSE n \in 0..(Dot(v, v)) : n * n <= Dot(v, v) /\ (n + 1) * (n + 1) > Dot(v, v)

\* sklearn cosine_similarity of one pair: 0 when either norm is 0
CosineSimilarity(q, v) ==
    IF Norm(q) = 0 \/ Norm(v) = 0 THEN 0
    ELSE (Dot(q, v) * ScoreScale) \div (Norm(q) * Norm(v))

Similarities(q, embeddings) ==
    [i \in 1..Len(embeddings) |-> CosineSimilarity(q, embeddings[i])]

\* -------------------------------------------------------------------------
\* Ranking
\* -------------------------------------------------------------------------
Min(a, b) == IF a <= b THEN a ELSE b
Max(a, b) == IF a >= b THEN a ELSE b

IndexOrders(n) == {p \in [1..n -> 1..n] : \A i, j \in 1..n : p[i] = p[j] => i = j}

\* np.argsort(similarities): the indices in ascending order of score.  The
\* default sort kind is not stable, so equal scores may come in any order.
Argsort(sims) ==
    {p \in IndexOrders(Len(sims)) :
        \A i \in 1..(Len(sims) - 1) : sims[p[i]] <= sims[p[i + 1]]}

\* s[::-1]
Reversed(s) == [i \in 1..Len(s) |-> s[Len(s) + 1 - i]]

\* s[:k]
SliceTo(s, k) == IF k >= 0 THEN SubSeq(s, 1, Min(k, Len(s)))
                 ELSE SubSeq(s, 1, Max(0, Len(s) + k))

\* np.argsort(similarities)[::-1][:top_k], for one outcome of the sort
TopIndices(order, top_k) == SliceTo(Reversed(order), top_k)

\* the thresholds with > in place of >=
get_confidence_level_strict(score) ==
    IF score > (8 * ScoreScale) \div 10 THEN "high"
    ELSE IF score > (6 * ScoreScale) \div 10 THEN "medium"
    ELSE IF score > (4 * ScoreScale) \div 10 THEN "low"
    ELSE "very_low"

get_confidence_level(score) ==
    IF score >= (8 * ScoreScale) \div 10 THEN "high"
    ELSE IF score >= (6 * ScoreScale) \div 10 THEN "medium"
    ELSE IF score >= (4 * ScoreScale) \div 10 THEN "low"
    ELSE "very_low"

\* the result list built by the loop of predict
FormatResults(top_indices, sims, rows) ==
    [i \in 1..Len(top_indices) |->
        [rank |-> i,
         nama_obat |-> rows[top_indices[i]].Nama,
         deskripsi_obat |-> rows[top_indices[i]].DeskripsiObat,
         similarity_score |-> sims[top_indices[i]],
         confidence |-> get_confidence_level(sims[top_indices[i]])]]

\* -------------------------------------------------------------------------
\* The drug database
\* -------------------------------------------------------------------------
RowA == [Nama |-> <<"a">>, DeskripsiObat |-> <<"x">>]
RowB == [Nama |-> <<"b">>, DeskripsiObat |-> <<"x">>]
RowC == [Nama |-> <<"c">>, DeskripsiObat |-> <<"y">>]
RowD == [Nama |-> <<"d">>, DeskripsiObat |-> <<"y">>]

RequiredColumns == {"Nama", "DeskripsiObat"}

\* what pd.read_csv may return for the file at CSV_PATH
CsvFiles ==
    {[columns |-> RequiredColumns, rows |-> <<RowA, RowB, RowA, RowC, RowD>>],
     [columns |-> {"Nama"}, rows |-> <<[Nama |-> <<"a">>]>>]}

\* df['ObatLengkap'] = df['Nama'] + ' - ' + df['DeskripsiObat']
AddObatLengkap(df) ==
    [columns |-> df.columns \cup {"ObatLengkap"},
     rows |-> [i \in 1..Len(df.rows) |->
                 [Nama |-> df.rows[i].Nama,
                  DeskripsiObat |-> df.rows[i].DeskripsiObat,
                  ObatLengkap |-> ObatLengkap(df.rows[i])]]]

RECURSIVE KeepFirst(_, _)
KeepFirst(rows, seen) ==
    IF rows = <<>> THEN <<>>
    ELSE IF Head(rows).ObatLengkap \in seen THEN KeepFirst(Tail(rows), seen)
    ELSE <<Head(rows)>> \o KeepFirst(Tail(rows), seen \cup {Head(rows).ObatLengkap})

\* df.drop_duplicates(subset=['ObatLengkap']).reset_index(drop=True)
DropDuplicates(df) == [columns |-> df.columns, rows |-> KeepFirst(df.rows, {})]

\* df['ObatLengkap'].tolist()
DrugTexts(df) == [i \in 1..Len(df.rows) |-> df.rows[i].ObatLengkap]

\* -------------------------------------------------------------------------
\* State
\* -------------------------------------------------------------------------
VARIABLES
    initialization_status,  \* the dict self.initialization_status
    model,                  \* self.model: None or the loaded encoder
    drug_embeddings,        \* self.drug_embeddings: None or the vectors
    df_drugs,               \* self.df_drugs: None or the data frame
    lock,                   \* self._lock: 0 when free, else the holder
    initialization_thread,  \* self._initialization_thread: 0 for None, else a Thread
    pc,                     \* where each request thread and each Thread object is
    exc,                    \* the exception a build is handling
    call,                   \* the operation a request thread runs and its arguments;
                            \* for initialize also the status at the moment of the
                            \* call (called_when)
    locals,                 \* local variables of that operation
    result,                 \* what the operation returned or raised
    clock,                  \* time.time()
    token,                  \* whether config.HUGGINGFACE_TOKEN is set
    init_calls,             \* how many times initialize has been called
    builds                  \* how many builds have been started

vars == <<initialization_status, model, drug_embeddings, df_drugs, lock,
          initialization_thread, pc, exc, call, locals, result, clock, token, init_calls, builds>>

NoCall == [op |-> "none"]

Init ==
    /\ initialization_status =
          [status |-> "not_started", error |-> None, progress |-> 0,
           message |-> "", start_time |-> None, end_time |-> None]
    /\ model = None
    /\ drug_embeddings = None
    /\ df_drugs = None
    /\ lock = 0
    /\ initialization_thread = 0
    /\ pc = [p \in Procs |-> IF p \in Callers THEN "idle" ELSE "unused"]
    /\ exc = [p \in Procs |-> None]
    /\ call = [c \in Callers |-> NoCall]
    /\ locals = [c \in Callers |-> None]
    /\ result = [c \in Callers |-> None]
    /\ clock = 1
    /\ token \in BOOLEAN
    /\ init_calls = 0
    /\ builds = 0

\* time passes
Tick ==
    /\ clock < MaxTime
    /\ clock' = clock + 1
    /\ UNCHANGED <<initialization_status, model, drug_embeddings, df_drugs, lock,
                   initialization_thread, pc, exc, call, locals, result, token, init_calls, builds>>

\* -------------------------------------------------------------------------
\* _initialize_sync, run by a request thread (foreground) or by a Thread
\* -------------------------------------------------------------------------
Goto(p, to) == pc' = [pc EXCEPT ![p] = to]

Returned(value) == Some([exc |-> "None", value |-> value])
Raised(type) == Some([exc |-> type, value |-> None])

\* Thread.is_alive(): started and not finished
ThreadPcs == {"unused", "created", "dead"}
IsAlive(t) == pc[t] \notin ThreadPcs

\* the with-block is left: the lock is released and _initialize_sync returns.
\* A Thread ends here; one that is no longer referenced is garbage.
SyncReturn(p, value) ==
    /\ lock' = 0
    /\ exc' = [exc EXCEPT ![p] = None]
    /\ IF p \in Threads
       THEN /\ Goto(p, IF initialization_thread = p THEN "dead" ELSE "unused")
            /\ UNCHANGED result
       ELSE /\ Goto(p, "ret")
            /\ result' = [result EXCEPT ![p] = Returned(value)]

\* one assignment to a key of initialization_status
StatusStep(p, from, to, field, value) ==
    /\ pc[p] = from
    /\ Goto(p, to)
    /\ initialization_status' = [initialization_status EXCEPT ![field] = value]
    /\ UNCHANGED <<model, drug_embeddings, df_drugs, lock, initialization_thread,
                   exc, call, locals, result, clock, token, init_calls, builds>>

\* an exception is raised and control passes to the except clause
Raise(p, from, handler, e) ==
    /\ pc[p] = from
    /\ Goto(p, handler)
    /\ exc' = [exc EXCEPT ![p] = Some(e)]
    /\ UNCHANGED <<initialization_status, model, drug_embeddings, df_drugs, lock,
                   initialization_thread, call, locals, result, clock, token, init_calls, builds>>

\* control moves on without changing the state
Skip(p, from, to) ==
    /\ pc[p] = from
    /\ Goto(p, to)
    /\ UNCHANGED <<initialization_status, model, drug_embeddings, df_drugs, lock,
                   initialization_thread, exc, call, locals, result, clock, token, init_calls, builds>>

\* a lock that never excludes
LockFreeAlways == TRUE

\* threading.Lock: acquire succeeds only when no thread holds it
LockFree == lock = 0

\* _initialize_sync without the early return for a completed status
L47Rebuild(p) ==
    /\ pc[p] = "L47"
    /\ LockFree
    /\ IF initialization_status.status = "in_progress"
       THEN SyncReturn(p, FALSE) /\ UNCHANGED builds
       ELSE /\ lock' = p
            /\ Goto(p, "L54")
            /\ builds' = builds + 1
            /\ UNCHANGED <<exc, result>>
    /\ UNCHANGED <<initialization_status, model, drug_embeddings, df_drugs,
                   initialization_thread, call, locals, clock, token, init_calls>>

\* with self._lock: the two early returns, or the build starts
L47(p) ==
    /\ pc[p] = "L47"
    /\ LockFree
    /\ IF initialization_status.status = "completed"
       THEN SyncReturn(p, TRUE) /\ UNCHANGED builds
       ELSE IF initialization_status.status = "in_progress"
       THEN SyncReturn(p, FALSE) /\ UNCHANGED builds
       ELSE /\ lock' = p
            /\ Goto(p, "L54")
            /\ builds' = builds + 1
            /\ UNCHANGED <<exc, result>>
    /\ UNCHANGED <<initialization_status, model, drug_embeddings, df_drugs,
                   initialization_thread, call, locals, clock, token, init_calls>>

L54(p) == StatusStep(p, "L54", "L55", "status", "in_progress")
L55(p) == StatusStep(p, "L55", "L56", "progress", 0)
L56(p) == StatusStep(p, "L56", "L57", "message", "Starting initialization...")
\* a run that keeps the start_time it finds
L57KeepsStartTime(p) == Skip(p, "L57", "L58")
L57(p) == StatusStep(p, "L57", "L58", "start_time", Some(clock))
L58(p) == StatusStep(p, "L58", "L62", "error", None)

\* Step 1: login when a token is configured
L62(p) == Skip(p, "L62", IF token THEN "L64" ELSE "L70")
L64(p) ==
    \/ Skip(p, "L64", "L65")
    \/ Raise(p, "L64", "L113", "login refused")
L65(p) == StatusStep(p, "L65", "L66", "progress", 10)
L66(p) == StatusStep(p, "L66", "L70", "message", "Logged in to Hugging Face")

\* Step 2: load the model
L70(p) == StatusStep(p, "L70", "L71", "progress", 20)
L71(p) == StatusStep(p, "L71", "L74", "message", "Loading model from Hugging Face...")
L74(p) ==
    \/ /\ pc[p] = "L74"
       /\ Goto(p, "L80")
       /\ model' = Some("SentenceTransformer")
       /\ UNCHANGED <<initialization_status, drug_embeddings, df_drugs, lock,
                      initialization_thread, exc, call, locals, result, clock, token, init_calls, builds>>
    \/ Raise(p, "L74", "L113", "model not available")
L80(p) == StatusStep(p, "L80", "L81", "progress", 50)
L81(p) == StatusStep(p, "L81", "L85", "message", "Model loaded successfully")

\* Step 3: load the drug database
L85(p) == StatusStep(p, "L85", "L86", "progress", 60)
L86(p) == StatusStep(p, "L86", "L143", "message", "Loading drug database...")

\* _load_drug_database
L143(p) ==
    \/ Skip(p, "L143", "L146")
    \/ Raise(p, "L143", "L166", "CSV file not found")
L146(p) ==
    /\ /\ pc[p] = "L146"
       /\ Goto(p, "L151")
       /\ \E csv \in CsvFiles : df_drugs' = Some(csv)
       /\ UNCHANGED <<initialization_status, model, drug_embeddings, lock,
                      initialization_thread, exc, call, locals, result, clock, token, init_calls, builds>>
\* missing_columns = [col for col in required_columns if col not in columns]
MissingColumns(df) == RequiredColumns \ df.columns

L151(p) ==
    /\ pc[p] = "L151"
    /\ IF MissingColumns(df_drugs[1]) = {}
       THEN Skip(p, "L151", "L157")
       ELSE Raise(p, "L151", "L166", "Missing columns")
L157(p) ==
    /\ pc[p] = "L157"
    /\ Goto(p, "L158")
    /\ df_drugs' = Some(AddObatLengkap(df_drugs[1]))
    /\ UNCHANGED <<initialization_status, model, drug_embeddings, lock,
                   initialization_thread, exc, call, locals, result, clock, token, init_calls, builds>>
L158(p) ==
    /\ pc[p] = "L158"
    /\ Goto(p, "L93")
    /\ df_drugs' = Some(DropDuplicates(df_drugs[1]))
    /\ UNCHANGED <<initialization_status, model, drug_embeddings, lock,
                   initialization_thread, exc, call, locals, result, clock, token, init_calls, builds>>
\* a failed catalog load reported as success
L167ReturnsTrue(p) ==
    /\ pc[p] = "L167"
    /\ initialization_status' =
          [initialization_status EXCEPT
              !.error = Some("Error loading drug database: " \o exc[p][1])]
    /\ SyncReturn(p, TRUE)
    /\ UNCHANGED <<model, drug_embeddings, df_drugs, initialization_thread,
                   call, locals, clock, token, init_calls, builds>>

\* an except clause that leaves the status as it is
L166KeepsStatus(p) == Skip(p, "L166", "L167")

\* except in _load_drug_database; then "return False" twice
L166(p) == StatusStep(p, "L166", "L167", "status", "failed")
L167(p) ==
    /\ pc[p] = "L167"
    /\ initialization_status' =
          [initialization_status EXCEPT
              !.error = Some("Error loading drug database: " \o exc[p][1])]
    /\ SyncReturn(p, FALSE)
    /\ UNCHANGED <<model, drug_embeddings, df_drugs, initialization_thread,
                   call, locals, clock, token, init_calls, builds>>

\* Step 4: generate the embeddings
L93(p) == StatusStep(p, "L93", "L94", "progress", 80)
\* the build goes on to "Completion" without generating the embeddings
L94SkipEmbeddings(p) == StatusStep(p, "L94", "L100", "message", "Generating embeddings...")
L94(p) == StatusStep(p, "L94", "L174", "message", "Generating embeddings...")

\* the failure of model.encode leaves _initialize_sync uncaught
L174Uncaught(p) ==
    \/ /\ pc[p] = "L174"
       /\ Goto(p, "L100")
       /\ drug_embeddings' = Some(EncodeAll(DrugTexts(df_drugs[1])))
       /\ UNCHANGED <<initialization_status, model, df_drugs, lock,
                      initialization_thread, exc, call, locals, result, clock, token, init_calls, builds>>
    \/ /\ pc[p] = "L174"
       /\ lock' = 0
       /\ IF p \in Threads
          THEN /\ Goto(p, IF initialization_thread = p THEN "dead" ELSE "unused")
               /\ UNCHANGED result
          ELSE /\ Goto(p, "ret")
               /\ result' = [result EXCEPT ![p] = Raised("Exception")]
       /\ UNCHANGED <<initialization_status, model, drug_embeddings, df_drugs,
                      initialization_thread, exc, call, locals, clock, token, init_calls, builds>>

\* _generate_embeddings
L174(p) ==
    \/ /\ pc[p] = "L174"
       /\ Goto(p, "L100")
       /\ drug_embeddings' = Some(EncodeAll(DrugTexts(df_drugs[1])))
       /\ UNCHANGED <<initialization_status, model, df_drugs, lock,
                      initialization_thread, exc, call, locals, result, clock, token, init_calls, builds>>
    \/ Raise(p, "L174", "L186", "encoder failed")
L186(p) == StatusStep(p, "L186", "L187", "status", "failed")
L187(p) ==
    /\ pc[p] = "L187"
    /\ initialization_status' =
          [initialization_status EXCEPT
              !.error = Some("Error generating embeddings: " \o exc[p][1])]
    /\ SyncReturn(p, FALSE)
    /\ UNCHANGED <<model, drug_embeddings, df_drugs, initialization_thread,
                   call, locals, clock, token, init_calls, builds>>

\* Completion
L100(p) == StatusStep(p, "L100", "L101", "status", "completed")
L101(p) == StatusStep(p, "L101", "L102", "progress", 100)
L102(p) == StatusStep(p, "L102", "L103", "message", "Initialization completed successfully")
L103(p) == StatusStep(p, "L103", "L104", "error", None)
L104(p) ==
    /\ pc[p] = "L104"
    /\ initialization_status' = [initialization_status EXCEPT !.end_time = Some(clock)]
    /\ SyncReturn(p, TRUE)
    /\ UNCHANGED <<model, drug_embeddings, df_drugs, initialization_thread,
                   call, locals, clock, token, init_calls, builds>>

\* except Exception as e
ErrorMsg(p) == "Initialization failed: " \o exc[p][1]
L113(p) == StatusStep(p, "L113", "L114", "status", "failed")
L114(p) == StatusStep(p, "L114", "L115", "error", Some(ErrorMsg(p)))
L115(p) == StatusStep(p, "L115", "L116", "message", ErrorMsg(p))
L116(p) ==
    /\ pc[p] = "L116"
    /\ initialization_status' = [initialization_status EXCEPT !.end_time = Some(clock)]
    /\ SyncReturn(p, FALSE)
    /\ UNCHANGED <<model, drug_embeddings, df_drugs, initialization_thread,
                   call, locals, clock, token, init_calls, builds>>

\* the positions inside the build
BuildPcs == {"L54", "L55", "L56", "L57", "L58", "L62", "L64", "L65", "L66", "L70",
             "L71", "L74", "L80", "L81", "L85", "L86", "L143", "L146", "L151",
             "L157", "L158", "L166", "L167", "L93", "L94", "L174", "L186", "L187",
             "L100", "L101", "L102", "L103", "L104", "L113", "L114", "L115", "L116"}

initialize_sync(p) ==
    \/ L47(p) \/ L54(p) \/ L55(p) \/ L56(p) \/ L57(p) \/ L58(p)
    \/ L62(p) \/ L64(p) \/ L65(p) \/ L66(p)
    \/ L70(p) \/ L71(p) \/ L74(p) \/ L80(p) \/ L81(p)
    \/ L85(p) \/ L86(p)
    \/ L143(p) \/ L146(p) \/ L151(p) \/ L157(p) \/ L158(p) \/ L166(p) \/ L167(p)
    \/ L93(p) \/ L94(p) \/ L174(p) \/ L186(p) \/ L187(p)
    \/ L100(p) \/ L101(p) \/ L102(p) \/ L103(p) \/ L104(p)
    \/ L113(p) \/ L114(p) \/ L115(p) \/ L116(p)

\* -------------------------------------------------------------------------
\* initialize(background), as called by a request thread
\* -------------------------------------------------------------------------
\* calls that have not yet reached the point where a build starts or not
PendingCalls == Cardinality({p \in Procs : pc[p] \in {"L34", "L38", "L39", "L40", "L47"}})

CallInitializeWith(c, backgrounds) ==
    /\ pc[c] = "idle"
    /\ init_calls < MaxInitCalls
    /\ initialization_status.status = "completed" \/ builds + PendingCalls < MaxBuilds
    /\ init_calls' = init_calls + 1
    /\ \E background \in backgrounds :
         /\ call' = [call EXCEPT ![c] =
                      [op |-> "initialize", background |-> background,
                       called_when |-> initialization_status.status]]
         /\ Goto(c, IF background THEN "L34" ELSE "L47")
    /\ UNCHANGED <<initialization_status, model, drug_embeddings, df_drugs, lock,
                   initialization_thread, exc, locals, result, clock, token, builds>>

CallInitialize(c) == CallInitializeWith(c, BOOLEAN)

\* if self._initialization_thread and self._initialization_thread.is_alive()
ThreadRunning == initialization_thread # 0 /\ IsAlive(initialization_thread)

\* initialize called by wait_for_initialization at line 133: "return True"
\* goes back to the loop and the value is dropped
NestedCall(c) == call[c].op = "wait_for_initialization"
InitializeReturnPc(c) == IF NestedCall(c) THEN "L135" ELSE "ret"
InitializeResult(c) == IF NestedCall(c) THEN result ELSE [result EXCEPT ![c] = Returned(TRUE)]

L34(c) ==
    /\ pc[c] = "L34"
    /\ IF ThreadRunning
       THEN /\ Goto(c, InitializeReturnPc(c))
            /\ result' = InitializeResult(c)
       ELSE /\ Goto(c, "L38")
            /\ UNCHANGED result
    /\ UNCHANGED <<initialization_status, model, drug_embeddings, df_drugs, lock,
                   initialization_thread, exc, call, locals, clock, token, init_calls, builds>>

\* Thread objects that can be allocated: unused ones, and the one the field
\* refers to when it is not running (the assignment drops the last reference)
FreeThreads ==
    {t \in Threads : pc[t] = "unused" \/ (t = initialization_thread /\ ~IsAlive(t))}

NewThread == CHOOSE t \in FreeThreads : \A u \in FreeThreads : t <= u

\* self._initialization_thread = threading.Thread(target=self._initialize_sync)
L38(c) ==
    /\ pc[c] = "L38"
    /\ FreeThreads # {}
    /\ initialization_thread' = NewThread
    /\ pc' = [p \in Procs |->
                IF p = c THEN "L39"
                ELSE IF p = NewThread THEN "created"
                ELSE IF p = initialization_thread /\ ~IsAlive(p) THEN "unused"
                ELSE pc[p]]
    /\ UNCHANGED <<initialization_status, model, drug_embeddings, df_drugs, lock,
                   exc, call, locals, result, clock, token, init_calls, builds>>

\* self._initialization_thread.daemon = True: the setter raises RuntimeError
\* for a Thread that has been started
L39(c) ==
    /\ pc[c] = "L39"
    /\ IF pc[initialization_thread] = "created"
       THEN /\ Goto(c, "L40")
            /\ UNCHANGED result
       ELSE /\ Goto(c, "ret")
            /\ result' = [result EXCEPT ![c] = Raised("RuntimeError")]
    /\ UNCHANGED <<initialization_status, model, drug_embeddings, df_drugs, lock,
                   initialization_thread, exc, call, locals, clock, token, init_calls, builds>>

\* self._initialization_thread.start(); return True.  start raises
\* RuntimeError for a Thread that has been started
L40(c) ==
    /\ pc[c] = "L40"
    /\ IF pc[initialization_thread] = "created"
       THEN /\ pc' = [pc EXCEPT ![c] = InitializeReturnPc(c), ![initialization_thread] = "L47"]
            /\ result' = InitializeResult(c)
       ELSE /\ Goto(c, "ret")
            /\ result' = [result EXCEPT ![c] = Raised("RuntimeError")]
    /\ UNCHANGED <<initialization_status, model, drug_embeddings, df_drugs, lock,
                   initialization_thread, exc, call, locals, clock, token, init_calls, builds>>

initialize(c) == L34(c) \/ L38(c) \/ L39(c) \/ L40(c)

\* the caller takes the result; the request thread is free again
Return(c) ==
    /\ pc[c] = "ret"
    /\ Goto(c, "idle")
    /\ call' = [call EXCEPT ![c] = NoCall]
    /\ locals' = [locals EXCEPT ![c] = None]
    /\ result' = [result EXCEPT ![c] = None]
    /\ UNCHANGED <<initialization_status, model, drug_embeddings, df_drugs, lock,
                   initialization_thread, exc, clock, token, init_calls, builds>>

\* -------------------------------------------------------------------------
\* predict(keluhan, anamnesa, top_k)
\* -------------------------------------------------------------------------
Texts == {<<>>, <<" ">>, <<"f">>, <<" ", "c", "\t">>}

CallPredictWith(c, keluhans, anamnesas, top_ks) ==
    /\ pc[c] = "idle"
    /\ \E keluhan \in keluhans, anamnesa \in anamnesas, top_k \in top_ks :
         call' = [call EXCEPT ![c] =
                     [op |-> "predict", keluhan |-> keluhan, anamnesa |-> anamnesa,
                      top_k |-> top_k]]
    /\ Goto(c, "L192")
    /\ UNCHANGED <<initialization_status, model, drug_embeddings, df_drugs, lock,
                   initialization_thread, exc, locals, result, clock, token, init_calls, builds>>

\* the concurrent system draws predict's arguments from a smaller set
CallPredict(c) == CallPredictWith(c, {<<>>, <<"f">>}, {<<>>}, {MaxTopK - 3})

\* readiness judged by the model being loaded
NotInitializedModelOnly == model = None

\* if self.initialization_status["status"] != "completed"
NotInitialized == initialization_status.status # "completed"

L192(c) ==
    /\ pc[c] = "L192"
    /\ IF NotInitialized
       THEN /\ Goto(c, "ret")
            /\ result' = [result EXCEPT ![c] = Raised("RuntimeError")]
       ELSE /\ Goto(c, "L196")
            /\ UNCHANGED result
    /\ UNCHANGED <<initialization_status, model, drug_embeddings, df_drugs, lock,
                   initialization_thread, exc, call, locals, clock, token, init_calls, builds>>

\* if not query
QueryEmpty(query) == query = <<>>

L196(c) ==
    /\ pc[c] = "L196"
    /\ locals' = [locals EXCEPT ![c] =
                     Some([query |-> Query(call[c].keluhan, call[c].anamnesa),
                           encode_calls |-> 0])]
    /\ IF QueryEmpty(Query(call[c].keluhan, call[c].anamnesa))
       THEN /\ Goto(c, "ret")
            /\ result' = [result EXCEPT ![c] = Raised("ValueError")]
       ELSE /\ Goto(c, "L201")
            /\ UNCHANGED result
    /\ UNCHANGED <<initialization_status, model, drug_embeddings, df_drugs, lock,
                   initialization_thread, exc, call, clock, token, init_calls, builds>>

\* query_embedding = self.model.encode([query])
L201(c) ==
    /\ pc[c] = "L201"
    /\ IF model = None
       THEN /\ Goto(c, "ret")
            /\ result' = [result EXCEPT ![c] = Raised("AttributeError")]
            /\ UNCHANGED locals
       ELSE /\ Goto(c, "L204")
            /\ locals' = [locals EXCEPT ![c] =
                             Some([query |-> locals[c][1].query,
                                   encode_calls |-> locals[c][1].encode_calls + 1,
                                   query_embedding |-> Encode(locals[c][1].query)])]
            /\ UNCHANGED result
    /\ UNCHANGED <<initialization_status, model, drug_embeddings, df_drugs, lock,
                   initialization_thread, exc, call, clock, token, init_calls, builds>>

\* similarities = cosine_similarity(query_embedding, self.drug_embeddings)[0]
L204(c) ==
    /\ pc[c] = "L204"
    /\ IF drug_embeddings = None
       THEN /\ Goto(c, "ret")
            /\ result' = [result EXCEPT ![c] = Raised("ValueError")]
            /\ UNCHANGED locals
       ELSE /\ Goto(c, "L207")
            /\ locals' = [locals EXCEPT ![c] =
                             Some([query |-> locals[c][1].query,
                                   encode_calls |-> locals[c][1].encode_calls,
                                   similarities |->
                                      Similarities(locals[c][1].query_embedding,
                                                   drug_embeddings[1])])]
            /\ UNCHANGED result
    /\ UNCHANGED <<initialization_status, model, drug_embeddings, df_drugs, lock,
                   initialization_thread, exc, call, clock, token, init_calls, builds>>

\* top_indices, then the loop over self.df_drugs.iloc[idx], then return results
L207(c) ==
    /\ pc[c] = "L207"
    /\ Goto(c, "ret")
    /\ IF df_drugs = None
       THEN result' = [result EXCEPT ![c] = Raised("AttributeError")]
       ELSE \E order \in Argsort(locals[c][1].similarities) :
              result' = [result EXCEPT ![c] =
                  Returned(FormatResults(TopIndices(order, call[c].top_k),
                                         locals[c][1].similarities,
                                         df_drugs[1].rows))]
    /\ UNCHANGED <<initialization_status, model, drug_embeddings, df_drugs, lock,
                   initialization_thread, exc, call, locals, clock, token, init_calls, builds>>

predict(c) == L192(c) \/ L196(c) \/ L201(c) \/ L204(c) \/ L207(c)

\* -------------------------------------------------------------------------
\* get_status()
\* -------------------------------------------------------------------------
CallGetStatus(c) ==
    /\ pc[c] = "idle"
    /\ call' = [call EXCEPT ![c] = [op |-> "get_status"]]
    /\ Goto(c, "L241")
    /\ UNCHANGED <<initialization_status, model, drug_embeddings, df_drugs, lock,
                   initialization_thread, exc, locals, result, clock, token, init_calls, builds>>

\* status = {**self.initialization_status}: the copy is taken without the lock
StatusCopy == initialization_status

L241(c) ==
    /\ pc[c] = "L241"
    /\ Goto(c, "L244")
    /\ locals' = [locals EXCEPT ![c] = Some(StatusCopy)]
    /\ UNCHANGED <<initialization_status, model, drug_embeddings, df_drugs, lock,
                   initialization_thread, exc, call, result, clock, token, init_calls, builds>>

\* truth value of an optional number
Truthy(x) == x # None /\ x[1] # 0

Duration(status) ==
    IF Truthy(status.start_time)
    THEN IF Truthy(status.end_time)
         THEN Some(status.end_time[1] - status.start_time[1])
         ELSE Some(clock - status.start_time[1])
    ELSE None

\* lines 244-257: duration, the three component flags, return status
L244(c) ==
    /\ pc[c] = "L244"
    /\ Goto(c, "ret")
    /\ result' = [result EXCEPT ![c] =
          Returned([status |-> locals[c][1].status,
                    error |-> locals[c][1].error,
                    progress |-> locals[c][1].progress,
                    message |-> locals[c][1].message,
                    start_time |-> locals[c][1].start_time,
                    end_time |-> locals[c][1].end_time,
                    duration |-> Duration(locals[c][1]),
                    model_loaded |-> model # None,
                    embeddings_loaded |-> drug_embeddings # None,
                    database_loaded |-> df_drugs # None])]
    /\ UNCHANGED <<initialization_status, model, drug_embeddings, df_drugs, lock,
                   initialization_thread, exc, call, locals, clock, token, init_calls, builds>>

get_status(c) == L241(c) \/ L244(c)

\* -------------------------------------------------------------------------
\* wait_for_initialization(timeout)
\* -------------------------------------------------------------------------
STARTUP_TIMEOUT == 600

\* the timeouts a caller passes: none, or a number of seconds
Timeouts == {None} \cup {Some(t) : t \in 0..(MaxTime - 1)}

CallWaitWith(c, timeouts) ==
    /\ pc[c] = "idle"
    /\ \E timeout \in timeouts :
         call' = [call EXCEPT ![c] = [op |-> "wait_for_initialization", timeout |-> timeout]]
    /\ Goto(c, "L121")
    /\ UNCHANGED <<initialization_status, model, drug_embeddings, df_drugs, lock,
                   initialization_thread, exc, locals, result, clock, token, init_calls, builds>>

CallWait(c) == CallWaitWith(c, Timeouts)

\* timeout or self.config.STARTUP_TIMEOUT
TimeoutOrDefault(timeout) == IF Truthy(timeout) THEN timeout[1] ELSE STARTUP_TIMEOUT

\* lines 121-122
L121(c) ==
    /\ pc[c] = "L121"
    /\ Goto(c, "L124")
    /\ locals' = [locals EXCEPT ![c] =
                     Some([timeout |-> TimeoutOrDefault(call[c].timeout),
                           start_time |-> clock, wake |-> clock])]
    /\ UNCHANGED <<initialization_status, model, drug_embeddings, df_drugs, lock,
                   initialization_thread, exc, call, result, clock, token, init_calls, builds>>

\* while time.time() - start_time < timeout; after the loop, return False
L124(c) ==
    /\ pc[c] = "L124"
    /\ IF clock - locals[c][1].start_time < locals[c][1].timeout
       THEN /\ Goto(c, "L125")
            /\ UNCHANGED result
       ELSE /\ Goto(c, "ret")
            /\ result' = [result EXCEPT ![c] = Returned(FALSE)]
    /\ UNCHANGED <<initialization_status, model, drug_embeddings, df_drugs, lock,
                   initialization_thread, exc, call, locals, clock, token, init_calls, builds>>

\* a loop body that sleeps on not_started without calling initialize
L125NoStart(c) ==
    /\ pc[c] = "L125"
    /\ IF initialization_status.status = "completed"
       THEN /\ Goto(c, "ret")
            /\ result' = [result EXCEPT ![c] = Returned(TRUE)]
       ELSE IF initialization_status.status = "failed"
       THEN /\ Goto(c, "ret")
            /\ result' = [result EXCEPT ![c] = Returned(FALSE)]
       ELSE /\ Goto(c, "L135")
            /\ UNCHANGED result
    /\ UNCHANGED <<initialization_status, model, drug_embeddings, df_drugs, lock,
                   initialization_thread, exc, call, locals, clock, token, init_calls, builds>>

\* lines 125-133: the status is read and the loop body branches on it
L125(c) ==
    /\ pc[c] = "L125"
    /\ IF initialization_status.status = "completed"
       THEN /\ Goto(c, "ret")
            /\ result' = [result EXCEPT ![c] = Returned(TRUE)]
       ELSE IF initialization_status.status = "failed"
       THEN /\ Goto(c, "ret")
            /\ result' = [result EXCEPT ![c] = Returned(FALSE)]
       ELSE IF initialization_status.status = "not_started"
       THEN /\ Goto(c, "L34")
            /\ UNCHANGED result
       ELSE /\ Goto(c, "L135")
            /\ UNCHANGED result
    /\ UNCHANGED <<initialization_status, model, drug_embeddings, df_drugs, lock,
                   initialization_thread, exc, call, locals, clock, token, init_calls, builds>>

\* time.sleep(1): the thread sleeps for at least one second
L135(c) ==
    /\ pc[c] = "L135"
    /\ Goto(c, "asleep")
    /\ locals' = [locals EXCEPT ![c] =
                     Some([timeout |-> locals[c][1].timeout,
                           start_time |-> locals[c][1].start_time,
                           wake |-> clock + 1])]
    /\ UNCHANGED <<initialization_status, model, drug_embeddings, df_drugs, lock,
                   initialization_thread, exc, call, result, clock, token, init_calls, builds>>

WakeUp(c) ==
    /\ pc[c] = "asleep"
    /\ clock >= locals[c][1].wake
    /\ Skip(c, "asleep", "L124")

wait_for_initialization(c) == L121(c) \/ L124(c) \/ L125(c) \/ L135(c) \/ WakeUp(c)

\* -------------------------------------------------------------------------
\* get_stats()
\* -------------------------------------------------------------------------
CallGetStats(c) ==
    /\ pc[c] = "idle"
    /\ call' = [call EXCEPT ![c] = [op |-> "get_stats"]]
    /\ Goto(c, "L261")
    /\ UNCHANGED <<initialization_status, model, drug_embeddings, df_drugs, lock,
                   initialization_thread, exc, locals, result, clock, token, init_calls, builds>>

\* if self.df_drugs is None: return {"error": "Database not loaded"}
L261(c) ==
    /\ pc[c] = "L261"
    /\ IF df_drugs = None
       THEN /\ Goto(c, "ret")
            /\ result' = [result EXCEPT ![c] = Returned([error |-> "Database not loaded"])]
       ELSE /\ Goto(c, "L264")
            /\ UNCHANGED result
    /\ UNCHANGED <<initialization_status, model, drug_embeddings, df_drugs, lock,
                   initialization_thread, exc, call, locals, clock, token, init_calls, builds>>

\* lines 264-270
L264(c) ==
    /\ pc[c] = "L264"
    /\ Goto(c, "ret")
    /\ result' = [result EXCEPT ![c] =
          Returned([total_drugs |-> Len(df_drugs[1].rows),
                    columns |-> df_drugs[1].columns,
                    embedding_shape |->
                        IF drug_embeddings # None
                        THEN Some(Len(drug_embeddings[1])) ELSE None])]
    /\ UNCHANGED <<initialization_status, model, drug_embeddings, df_drugs, lock,
                   initialization_thread, exc, call, locals, clock, token, init_calls, builds>>

get_stats(c) == L261(c) \/ L264(c)

\* -------------------------------------------------------------------------
\* _get_confidence_level(score), called on its own
\* -------------------------------------------------------------------------
Scores ==
    {k * (ScoreScale \div 20) : k \in -20..20}
      \cup {(t * ScoreScale) \div 10 + d : t \in {4, 6, 8}, d \in {-1, 0, 1}}

CallConfidence(c) ==
    /\ pc[c] = "idle"
    /\ \E score \in Scores :
         call' = [call EXCEPT ![c] = [op |-> "get_confidence_level", score |-> score]]
    /\ Goto(c, "L226")
    /\ UNCHANGED <<initialization_status, model, drug_embeddings, df_drugs, lock,
                   initialization_thread, exc, locals, result, clock, token, init_calls, builds>>

L226(c) ==
    /\ pc[c] = "L226"
    /\ Goto(c, "ret")
    /\ result' = [result EXCEPT ![c] = Returned(get_confidence_level(call[c].score))]
    /\ UNCHANGED <<initialization_status, model, drug_embeddings, df_drugs, lock,
                   initialization_thread, exc, call, locals, clock, token, init_calls, builds>>

\* -------------------------------------------------------------------------
\* The /predict request handler of the API service
\* -------------------------------------------------------------------------
MAX_TOP_K == 20
DEFAULT_TOP_K == 5

\* A value parsed from the JSON body: its Python type and its numeric value.
\* True and False are instances of int with the values 1 and 0.
PyValue(type, n) == [type |-> type, value |-> n]

\* the top_k values a request body carries, None when the key is absent
JsonTopKs ==
    {None, Some(PyValue("NoneType", 0)), Some(PyValue("bool", 1)), Some(PyValue("bool", 0)),
     Some(PyValue("float", 3)), Some(PyValue("str", 3))}
      \cup {Some(PyValue("int", n)) : n \in {-5, 0, 1, 3, MAX_TOP_K, MAX_TOP_K + 1}}

\* the request bodies: each key is present or absent
Bodies ==
    [keluhan : {None, Some(<<"f">>)}, anamnesa : {None, Some(<<" ">>)}, top_k : JsonTopKs]

\* dict.get(key, default)
Get(option, default) == IF option = None THEN default ELSE option[1]

\* isinstance(top_k, int): bool is a subclass of int
IsInstanceInt(v) == v.type \in {"int", "bool"}

\* lines 186-187
ClampTopK(top_k) ==
    IF ~IsInstanceInt(top_k) \/ top_k.value < 1 \/ top_k.value > MAX_TOP_K
    THEN PyValue("int", DEFAULT_TOP_K)
    ELSE top_k

\* if not data: an empty JSON object is falsy
NoData(body) == body.keluhan = None /\ body.anamnesa = None /\ body.top_k = None

Response(code) == Returned([code |-> code])

CallHandlePredict(c) ==
    /\ pc[c] = "idle"
    /\ \E body \in Bodies : call' = [call EXCEPT ![c] = [op |-> "handle_predict", body |-> body]]
    /\ Goto(c, "H143")
    /\ UNCHANGED <<initialization_status, model, drug_embeddings, df_drugs, lock,
                   initialization_thread, exc, locals, result, clock, token, init_calls, builds>>

\* if not self.drug_predictor.is_ready()
H143(c) == Skip(c, "H143", IF initialization_status.status = "completed" THEN "H168" ELSE "H144")

\* status = get_status() and the three early answers; a status that has
\* become completed since line 143 falls through to the validation
H144(c) ==
    /\ pc[c] = "H144"
    /\ IF initialization_status.status = "completed"
       THEN Goto(c, "H168") /\ UNCHANGED result
       ELSE /\ Goto(c, "ret")
            /\ result' = [result EXCEPT ![c] =
                  Response(IF initialization_status.status = "in_progress" THEN 202 ELSE 503)]
    /\ UNCHANGED <<initialization_status, model, drug_embeddings, df_drugs, lock,
                   initialization_thread, exc, call, locals, clock, token, init_calls, builds>>

\* lines 168-191: validation, the top_k clamp, and the call of predict with
\* the stripped texts.  The slice in predict uses top_k through its value.
H168(c) ==
    /\ pc[c] = "H168"
    /\ LET body == call[c].body
           keluhan == Strip(Get(body.keluhan, <<>>))
           anamnesa == Strip(Get(body.anamnesa, <<>>))
           top_k == ClampTopK(Get(body.top_k, PyValue("int", DEFAULT_TOP_K)))
       IN  IF NoData(body) \/ (keluhan = <<>> /\ anamnesa = <<>>)
           THEN /\ Goto(c, "ret")
                /\ result' = [result EXCEPT ![c] = Response(400)]
                /\ UNCHANGED call
           ELSE /\ Goto(c, "L192")
                /\ call' = [call EXCEPT ![c] =
                              [op |-> "handle_predict", body |-> body,
                               keluhan |-> keluhan, anamnesa |-> anamnesa,
                               passed |-> top_k, top_k |-> top_k.value]]
                /\ UNCHANGED result
    /\ UNCHANGED <<initialization_status, model, drug_embeddings, df_drugs, lock,
                   initialization_thread, exc, locals, clock, token, init_calls, builds>>

handle_predict(c) == H143(c) \/ H144(c) \/ H168(c)

\* lines 194-221: the status code of the answer of a request thread that is
\* back from the handler, from what predict returned or raised
StatusCode(c) ==
    IF "passed" \notin DOMAIN call[c] THEN result[c][1].value.code
    ELSE IF result[c][1].exc = "None" THEN 200
    ELSE IF result[c][1].exc = "ValueError" THEN 400
    ELSE IF result[c][1].exc = "RuntimeError" THEN 503
    ELSE 500

\* -------------------------------------------------------------------------
\* Program start: main.py, run as a script or imported by Gunicorn
\* -------------------------------------------------------------------------
\* DrugPredictor(config): a new instance with its own state, lock and thread
NewDrugPredictor == [status |-> "not_started", thread |-> "None"]

\* APIService.__init__: with AUTO_INITIALIZE, initialize(background=True) on
\* the instance it was given, which creates and starts that instance's Thread
APIService(predictor, auto_initialize) ==
    IF auto_initialize /\ predictor.thread # "alive"
    THEN [status |-> predictor.status, thread |-> "alive"]
    ELSE predictor

\* create_app(): the instances of the process after one more call
create_app(predictors, auto_initialize) ==
    Append(predictors, APIService(NewDrugPredictor, auto_initialize))

StartProgram(c) ==
    /\ pc[c] = "idle"
    /\ \E as_script \in BOOLEAN, auto_initialize \in BOOLEAN, csv_exists \in BOOLEAN :
         call' = [call EXCEPT ![c] =
                     [op |-> "main", as_script |-> as_script,
                      auto_initialize |-> auto_initialize, csv_exists |-> csv_exists]]
    /\ locals' = [locals EXCEPT ![c] = Some([predictors |-> <<>>])]
    /\ Goto(c, "M77")
    /\ UNCHANGED <<initialization_status, model, drug_embeddings, df_drugs, lock,
                   initialization_thread, exc, result, clock, token, init_calls, builds>>

\* one call of create_app; it raises when the CSV file is missing
CreateAppStep(c, from, to, error) ==
    /\ pc[c] = from
    /\ IF call[c].csv_exists
       THEN /\ Goto(c, to)
            /\ locals' = [locals EXCEPT ![c] =
                  Some([predictors |->
                           create_app(locals[c][1].predictors, call[c].auto_initialize)])]
            /\ UNCHANGED result
       ELSE /\ Goto(c, "ret")
            /\ result' = [result EXCEPT ![c] = Raised(error)]
            /\ UNCHANGED locals
    /\ UNCHANGED <<initialization_status, model, drug_embeddings, df_drugs, lock,
                   initialization_thread, exc, call, clock, token, init_calls, builds>>

\* module level: app = create_app()
M77(c) == CreateAppStep(c, "M77", "M79", "FileNotFoundError")

\* if __name__ == '__main__': main(); otherwise the import is complete
M79(c) ==
    /\ pc[c] = "M79"
    /\ IF call[c].as_script
       THEN Goto(c, "M49") /\ UNCHANGED result
       ELSE Goto(c, "ret") /\ result' = [result EXCEPT ![c] = Returned("imported")]
    /\ UNCHANGED <<initialization_status, model, drug_embeddings, df_drugs, lock,
                   initialization_thread, exc, call, locals, clock, token, init_calls, builds>>

\* main(): app = create_app(); a failure ends in sys.exit(1)
M49(c) == CreateAppStep(c, "M49", "M62", "SystemExit")

\* app.run(...): the process serves requests
M62(c) ==
    /\ pc[c] = "M62"
    /\ Goto(c, "ret")
    /\ result' = [result EXCEPT ![c] = Returned("serving")]
    /\ UNCHANGED <<initialization_status, model, drug_embeddings, df_drugs, lock,
                   initialization_thread, exc, call, locals, clock, token, init_calls, builds>>

\* the Thread of instance i runs _initialize_sync on that instance: it takes
\* the instance's lock and sets its status to in_progress ...
AutoBuildStarts(c, i) ==
    /\ call[c].op = "main"
    /\ i \in 1..Len(locals[c][1].predictors)
    /\ locals[c][1].predictors[i] = [status |-> "not_started", thread |-> "alive"]
    /\ locals' = [locals EXCEPT ![c] =
          Some([predictors |->
                   [locals[c][1].predictors EXCEPT
                       ![i] = [status |-> "in_progress", thread |-> "alive"]]])]
    /\ UNCHANGED <<initialization_status, model, drug_embeddings, df_drugs, lock,
                   initialization_thread, pc, exc, call, result, clock, token, init_calls, builds>>

\* ... and ends the build in completed or failed
AutoBuildEnds(c, i) ==
    /\ call[c].op = "main"
    /\ i \in 1..Len(locals[c][1].predictors)
    /\ locals[c][1].predictors[i] = [status |-> "in_progress", thread |-> "alive"]
    /\ \E outcome \in {"completed", "failed"} :
         locals' = [locals EXCEPT ![c] =
            Some([predictors |->
                     [locals[c][1].predictors EXCEPT
                         ![i] = [status |-> outcome, thread |-> "dead"]]])]
    /\ UNCHANGED <<initialization_status, model, drug_embeddings, df_drugs, lock,
                   initialization_thread, pc, exc, call, result, clock, token, init_calls, builds>>

\* the instances a program start can create: one per call of create_app
Instances == 1..2

main(c) ==
    \/ M77(c) \/ M79(c) \/ M49(c) \/ M62(c)
    \/ \E i \in Instances : AutoBuildStarts(c, i) \/ AutoBuildEnds(c, i)

\* -------------------------------------------------------------------------
\* The system
\* -------------------------------------------------------------------------
Next ==
    \/ Tick
    \/ \E c \in Callers :
         \/ CallInitialize(c) \/ initialize(c)
         \/ CallPredict(c) \/ predict(c)
         \/ CallGetStatus(c) \/ get_status(c)
         \/ CallWait(c) \/ wait_for_initialization(c)
         \/ CallGetStats(c) \/ get_stats(c)
         \/ CallHandlePredict(c) \/ handle_predict(c)
         \/ StartProgram(c) \/ main(c)
         \/ Return(c)
    \/ \E p \in Procs : initialize_sync(p)

Spec == Init /\ [][Next]_vars

\* The initialization calls alone: every request thread calls initialize.
\* The clock stands still here and in the next two specifications.
NextInit ==
    \/ \E c \in Callers : CallInitialize(c) \/ initialize(c) \/ Return(c)
    \/ \E p \in Procs : initialize_sync(p)

SpecInit == Init /\ [][NextInit]_vars

\* One request thread initializes while the others call predict
Initializers == {1}
Observers == Callers \ Initializers
Solo == {1}

NextPredict ==
    \/ \E c \in Initializers : CallInitialize(c) \/ initialize(c)
    \/ \E c \in Observers : CallPredict(c) \/ predict(c)
    \/ \E c \in Callers : Return(c)
    \/ \E p \in Procs : initialize_sync(p)

SpecPredict == Init /\ [][NextPredict]_vars

\* One request thread initializes while the others poll get_status
NextStatus ==
    \/ \E c \in Initializers : CallInitialize(c) \/ initialize(c)
    \/ \E c \in Observers : CallGetStatus(c) \/ get_status(c)
    \/ \E c \in Callers : Return(c)
    \/ \E p \in Procs : initialize_sync(p)

SpecStatus == Init /\ [][NextStatus]_vars

\* One request thread alone while time passes: foreground initialization,
\* then predict with every combination of texts and top_k
NextQuery ==
    \/ Tick
    \/ \E c \in Solo :
          \/ CallInitializeWith(c, {FALSE})
          \/ initialize_sync(c)
          \/ CallPredictWith(c, Texts, Texts, 1..MaxTopK)
          \/ predict(c)
          \/ Return(c)

SpecQuery == Init /\ [][NextQuery]_vars

\* One request thread initializes, in the foreground or in the background,
\* and sends /predict requests
NextHandler ==
    \/ \E c \in Solo :
          \/ CallInitialize(c) \/ initialize(c)
          \/ CallHandlePredict(c) \/ handle_predict(c) \/ predict(c)
          \/ Return(c)
    \/ \E p \in Procs : initialize_sync(p)

SpecHandler == Init /\ [][NextHandler]_vars

\* One request thread calls initialize again and again, in the foreground or
\* in the background, while the Threads it starts run and time passes
NextRetry ==
    \/ Tick
    \/ \E c \in Solo : CallInitialize(c) \/ initialize(c) \/ Return(c)
    \/ \E p \in Procs : initialize_sync(p)

SpecRetry == Init /\ [][NextRetry]_vars

\* One request thread makes every call of the DrugPredictor, one after the
\* other, while the Threads it starts run and time passes
NextLifetime ==
    \/ Tick
    \/ \E c \in Solo :
          \/ CallInitialize(c) \/ initialize(c)
          \/ CallWaitWith(c, {None, Some(1)}) \/ wait_for_initialization(c)
          \/ CallPredict(c) \/ predict(c)
          \/ CallGetStatus(c) \/ get_status(c)
          \/ CallGetStats(c) \/ get_stats(c)
          \/ Return(c)
    \/ \E p \in Procs : initialize_sync(p)

SpecLifetime == Init /\ [][NextLifetime]_vars

\* One request thread calls wait_for_initialization and nothing else, while
\* time passes.  The scheduler is fair to every thread that can run.
NextWait ==
    \/ Tick
    \/ \E c \in Solo :
          \/ CallWait(c) \/ wait_for_initialization(c) \/ initialize(c)
          \/ Return(c)
    \/ \E p \in Procs : initialize_sync(p)

SpecWait ==
    /\ Init
    /\ [][NextWait]_vars
    /\ \A c \in Solo : WF_vars(initialize(c))
    /\ \A p \in Procs : WF_vars(initialize_sync(p))

\* The program is started, as a script or by import, again and again
NextMain ==
    \E c \in Solo : StartProgram(c) \/ main(c) \/ Return(c)

SpecMain == Init /\ [][NextMain]_vars

\* One request thread calls initialize again and again.  Every thread that
\* can take a step of the build is scheduled, and every collaborator call
\* (login, model load, CSV read, encode) returns or raises.
NextProgress ==
    \/ \E c \in Solo : CallInitialize(c) \/ initialize(c) \/ Return(c)
    \/ \E p \in Procs : initialize_sync(p)

SpecProgress ==
    /\ Init
    /\ [][NextProgress]_vars
    /\ \A p \in Procs : WF_vars(initialize_sync(p))

\* The confidence mapping alone, over the scores in Scores
NextConfidence ==
    \E c \in Solo : CallConfidence(c) \/ L226(c) \/ Return(c)

SpecConfidence == Init /\ [][NextConfidence]_vars

\* -------------------------------------------------------------------------
\* Properties
\* -------------------------------------------------------------------------
Status == initialization_status.status

Builders == {p \in Procs : pc[p] \in BuildPcs}

AliveThreads == {t \in Threads : IsAlive(t)}

IndexPresent ==
    /\ model # None
    /\ df_drugs # None
    /\ drug_embeddings # None
    /\ Len(df_drugs[1].rows) = Len(drug_embeddings[1])

\* C1: at most one execution of the build sequence is in progress at any
\* moment, whatever mix of background and foreground calls is running.
C1_AtMostOneBuild == Cardinality(Builders) <= 1

\* a build is running while another execution of _initialize_sync waits
C1_Witness ==
    \E p \in Procs, q \in Procs : p # q /\ pc[p] \in BuildPcs /\ pc[q] = "L47"

\* C2: two background requests in quick succession are coalesced: the second
\* never starts or queues a run of its own, so no two Thread objects are ever
\* alive (one building or waiting behind the other) at the same time.
C2_SecondRequestCoalesced == Cardinality(AliveThreads) <= 1

\* C3: once the status is completed (and the completing run has left the
\* build), a step changes neither the model, the records, the embeddings nor
\* initialization_status, and every initialize call made after completion
\* returns True.
C3_IdempotentCompletion ==
    [][/\ (Status = "completed" /\ lock = 0) =>
             UNCHANGED <<initialization_status, model, df_drugs, drug_embeddings>>
       /\ \A c \in Callers :
             (/\ pc'[c] = "ret"
              /\ call'[c].op = "initialize"
              /\ call'[c].called_when = "completed")
                => result'[c] = Returned(TRUE)]_vars

\* C4: an initialize call made while a build is in progress returns without
\* waiting for that build: it is never held at the lock the build owns.
C4_ReturnsImmediately ==
    \A c \in Callers :
        ~(/\ call[c].op = "initialize"
          /\ call[c].called_when = "in_progress"
          /\ pc[c] = "L47"
          /\ lock # 0)

\* C5: whenever the status is completed, and whenever a predict call is past
\* its readiness check, the model, the records and the embeddings are present
\* and there are as many records as embedding vectors.
C5_AtomicPublication ==
    /\ Status = "completed" => IndexPresent
    /\ \A c \in Callers : pc[c] \in {"L196", "L201", "L204", "L207"} => IndexPresent

\* a predict call scores against an index published by a second build
C5_Witness ==
    \E c \in Callers : pc[c] = "L207" /\ builds = 2 /\ Len(drug_embeddings[1]) = 4

\* C6: a snapshot returned by get_status with status completed has progress
\* 100 and end_time set.
C6_SnapshotConsistent ==
    \A c \in Callers :
        (/\ pc[c] = "ret"
         /\ call[c].op = "get_status"
         /\ result[c][1].value.status = "completed")
           => /\ result[c][1].value.progress = 100
              /\ result[c][1].value.end_time # None

\* C7: the readiness check of predict raises RuntimeError when the status is
\* not_started, in_progress or failed and lets the call through when it is
\* completed; a call that is past the check always finds the status completed.
C7_PreReadyRejection ==
    [][\A c \in Callers :
          /\ (pc[c] = "L192" /\ pc'[c] # "L192") =>
                IF Status \in {"not_started", "in_progress", "failed"}
                THEN pc'[c] = "ret" /\ result'[c] = Raised("RuntimeError")
                ELSE pc'[c] = "L196"
          /\ pc'[c] \in {"L196", "L201", "L204", "L207"} =>
                initialization_status'.status = "completed"]_vars

\* predict is rejected while a build that has loaded the model is running
C7_Witness ==
    \E c \in Callers :
        /\ pc[c] = "ret"
        /\ call[c].op = "predict"
        /\ result[c] = Raised("RuntimeError")
        /\ Status = "in_progress"
        /\ model # None

\* the indices by score descending, equal scores in catalog order
StableDescending(sims) ==
    CHOOSE p \in IndexOrders(Len(sims)) :
        \A i, j \in 1..Len(sims) :
            i < j => \/ sims[p[i]] > sims[p[j]]
                     \/ (sims[p[i]] = sims[p[j]] /\ p[i] < p[j])

\* C8: predict returns the records by similarity descending, ties in catalog
\* order, truncated to top_k.
C8_TiesInCatalogOrder ==
    \A c \in Callers :
        (/\ pc[c] = "ret"
         /\ call[c].op = "predict"
         /\ result[c][1].exc = "None")
           => result[c][1].value =
                 FormatResults(
                     SliceTo(StableDescending(locals[c][1].similarities), call[c].top_k),
                     locals[c][1].similarities,
                     df_drugs[1].rows)

\* C9: the confidence label is high from 0.8, medium from 0.6, low from 0.4
\* and very_low below, each lower bound inclusive.
C9_ConfidenceBoundaries ==
    \A c \in Callers :
        (pc[c] = "ret" /\ call[c].op = "get_confidence_level") =>
            LET s == call[c].score
                label == result[c][1].value
            IN  /\ label = "high" <=> 10 * s >= 8 * ScoreScale
                /\ label = "medium" <=> (10 * s >= 6 * ScoreScale /\ 10 * s < 8 * ScoreScale)
                /\ label = "low" <=> (10 * s >= 4 * ScoreScale /\ 10 * s < 6 * ScoreScale)
                /\ label = "very_low" <=> 10 * s < 4 * ScoreScale

\* the score 0.79999 has been labelled medium
C9_Witness ==
    \E c \in Callers :
        /\ pc[c] = "ret"
        /\ call[c].op = "get_confidence_level"
        /\ call[c].score = (8 * ScoreScale) \div 10 - 1
        /\ result[c] = Returned("medium")

\* only whitespace, or nothing at all
Blank(text) == \A i \in 1..Len(text) : text[i] \in {" ", "\t", "\n"}

\* C10: with the status completed, predict raises ValueError exactly when
\* both texts are blank, without calling the encoder, and returns a result
\* when one of them is not.
C10_EmptyQueryRejection ==
    \A c \in Callers :
        (pc[c] = "ret" /\ call[c].op = "predict" /\ Status = "completed") =>
            LET blank == Blank(call[c].keluhan) /\ Blank(call[c].anamnesa)
            IN  /\ result[c][1].exc = "ValueError" <=> blank
                /\ ~blank => result[c][1].exc = "None"
                /\ blank => locals[c][1].encode_calls = 0

\* a query of whitespace only has been rejected
C10_Witness ==
    \E c \in Callers :
        /\ pc[c] = "ret"
        /\ call[c].op = "predict"
        /\ Status = "completed"
        /\ call[c].keluhan = <<" ">>
        /\ result[c] = Raised("ValueError")

\* C11: the /predict handler calls predict with DEFAULT_TOP_K when the body's
\* top_k is absent, not a JSON integer, below 1 or above MAX_TOP_K, and with
\* the body's top_k when it is an integer in 1..MAX_TOP_K; such a request is
\* answered with 200.
C11_TopKClamp ==
    \A c \in Callers :
        (call[c].op = "handle_predict" /\ "passed" \in DOMAIN call[c]) =>
            LET t == call[c].body.top_k
                in_range == t # None /\ t[1].type = "int" /\ t[1].value \in 1..MAX_TOP_K
            IN  /\ call[c].top_k = IF in_range THEN t[1].value ELSE DEFAULT_TOP_K
                /\ pc[c] = "ret" => StatusCode(c) = 200

\* C12: after a build run has failed, the status is failed, error holds the
\* failure's description and end_time holds the time the run ended, which is
\* not before the run's start_time.
C12_FailedRunRecorded ==
    (Status = "failed" /\ lock = 0) =>
        /\ initialization_status.error # None
        /\ initialization_status.end_time # None
        /\ initialization_status.end_time[1] >= initialization_status.start_time[1]

\* the positions inside the except clauses of the build
HandlerPcs == {"L166", "L167", "L186", "L187", "L113", "L114", "L115", "L116"}

\* C13: a failure of a build step is handled inside the build by the thread
\* that holds the lock; when the handling ends the lock is free, the status is
\* failed, error is a non-empty string and a foreground caller gets False.  A
\* foreground initialize never raises, and a build never gives up the lock in
\* a status other than completed or failed.
C13_FailuresContained ==
    [][/\ \A p \in Procs :
             /\ exc'[p] # None => (pc'[p] \in HandlerPcs /\ lock' = p)
             /\ (exc[p] # None /\ exc'[p] = None) =>
                   /\ lock' = 0
                   /\ initialization_status'.status = "failed"
                   /\ initialization_status'.error # None
                   /\ initialization_status'.error[1] # ""
                   /\ p \in Callers => result'[p] = Returned(FALSE)
             /\ (lock = p /\ lock' = 0) =>
                   initialization_status'.status \in {"completed", "failed"}
       /\ \A c \in Callers :
             (pc'[c] = "ret" /\ call'[c].op = "initialize" /\ ~call'[c].background)
                => result'[c][1].exc = "None"]_vars

\* a foreground initialize has returned False after the encoder failed
C13_Witness ==
    \E c \in Callers :
        /\ pc[c] = "ret"
        /\ call[c].op = "initialize"
        /\ ~call[c].background
        /\ result[c] = Returned(FALSE)
        /\ lock = 0
        /\ Status = "failed"
        /\ initialization_status.error = Some("Error generating embeddings: encoder failed")

\* C14: in every snapshot returned by get_status the error is present exactly
\* when the status is failed.
C14_ErrorIffFailed ==
    \A c \in Callers :
        (pc[c] = "ret" /\ call[c].op = "get_status") =>
            (result[c][1].value.error # None <=> result[c][1].value.status = "failed")

\* C15: whenever the status is in_progress, end_time is None and the duration
\* get_status computes is the time elapsed since start_time.
C15_NoEndTimeWhileRunning ==
    Status = "in_progress" =>
        /\ initialization_status.end_time = None
        /\ initialization_status.start_time # None =>
              Duration(StatusCopy) = Some(clock - initialization_status.start_time[1])

\* C16: while the status stays in_progress the progress stays in 0..100 and
\* does not decrease from one step to the next.
C16_ProgressMonotone ==
    [][(Status = "in_progress" /\ initialization_status'.status = "in_progress") =>
          /\ initialization_status'.progress \in 0..100
          /\ initialization_status'.progress >= initialization_status.progress]_vars

\* C17: once the status is completed no step changes it, and no step
\* changes the model, the records or the embeddings.
C17_CompletedTerminal ==
    [][Status = "completed" =>
          /\ initialization_status'.status = "completed"
          /\ UNCHANGED <<model, df_drugs, drug_embeddings>>]_vars

\* an initialize call made after completion has returned
C17_Witness ==
    \E c \in Callers :
        /\ pc[c] = "ret"
        /\ call[c].op = "initialize"
        /\ call[c].called_when = "completed"
        /\ Status = "completed"

\* C18: _initialize_sync that finds the status failed starts a build, and so
\* does a background call that finds no Thread alive; once lines 54-58 have
\* run the status is in_progress with progress 0, no error and a start_time
\* not before the end of the run that failed; a retried build gives up the
\* lock in the status completed or failed.
C18_RetryAfterFailure ==
    [][/\ \A p \in Procs :
             /\ (pc[p] = "L47" /\ pc'[p] # "L47" /\ Status = "failed") =>
                   (pc'[p] = "L54" /\ lock' = p)
             /\ pc'[p] = "L62" =>
                   /\ initialization_status'.status = "in_progress"
                   /\ initialization_status'.progress = 0
                   /\ initialization_status'.error = None
                   /\ initialization_status'.start_time # None
                   /\ initialization_status'.end_time # None =>
                         initialization_status'.start_time[1] >=
                            initialization_status'.end_time[1]
             /\ (lock = p /\ lock' = 0 /\ builds > 1) =>
                   initialization_status'.status \in {"completed", "failed"}
       /\ \A c \in Callers :
             (pc[c] = "L34" /\ pc'[c] # "L34" /\ Status = "failed" /\ AliveThreads = {})
                => pc'[c] = "L38"]_vars

\* a second run, started later than the failure it follows, has run lines 54-58
C18_Witness ==
    \E p \in Procs :
        /\ pc[p] = "L62"
        /\ builds = 2
        /\ initialization_status.end_time # None
        /\ initialization_status.start_time[1] > initialization_status.end_time[1]

\* C19: a request thread that runs the build in the foreground has no
\* result while it builds, and the step that returns it from the build leaves
\* the lock free and the status completed or failed, with the result True
\* exactly when the status is completed.
C19_ForegroundOutcome ==
    [][\A c \in Callers :
          /\ pc'[c] \in BuildPcs => result'[c] = None
          /\ (pc[c] \in BuildPcs /\ pc'[c] = "ret") =>
                /\ lock' = 0
                /\ initialization_status'.status \in {"completed", "failed"}
                /\ result'[c] = Returned(initialization_status'.status = "completed")]_vars

\* a foreground call made after a failure has built and returned True
C19_Witness ==
    \E c \in Callers :
        /\ pc[c] = "ret"
        /\ call[c].op = "initialize"
        /\ ~call[c].background
        /\ call[c].called_when = "failed"
        /\ result[c] = Returned(TRUE)
        /\ builds = 2
        /\ AliveThreads = {}

\* C20: while a wait_for_initialization that has seen not_started is back in
\* its loop, a Thread is alive for the build unless the status has already
\* left not_started; the status does leave not_started after the waiter has
\* seen it; and however often the waiter polls, at most one Thread is alive
\* and at most one build runs at a time.
C20_WaitStartsBuild ==
    /\ [](/\ Cardinality(Builders) <= 1
          /\ Cardinality(AliveThreads) <= 1
          /\ \A c \in Callers :
                (NestedCall(c) /\ pc[c] \in {"L135", "asleep"}) =>
                    (Status # "not_started" \/ AliveThreads # {}))
    /\ (\E c \in Callers : NestedCall(c) /\ pc[c] = "L34") ~> (Status # "not_started")

\* a later poll iteration sees not_started again while the Thread started by
\* an earlier one has not yet begun the build
C20_Witness ==
    \E c \in Callers :
        /\ NestedCall(c)
        /\ pc[c] = "L34"
        /\ clock > locals[c][1].start_time
        /\ ThreadRunning
        /\ Status = "not_started"

\* the deadline the caller of wait_for_initialization asked for, in seconds
\* after the call; STARTUP_TIMEOUT when it passed none
Deadline(c) == IF call[c].timeout = None THEN STARTUP_TIMEOUT ELSE call[c].timeout[1]

\* C21: wait_for_initialization enters its loop body only while less than the
\* caller's timeout has elapsed since the call; it returns True only when it
\* reads the status completed, and False only when it reads failed or when the
\* caller's timeout has elapsed.
C21_TimeoutBounded ==
    [][\A c \in Callers :
          NestedCall(c) =>
              /\ (pc[c] = "L124" /\ pc'[c] = "L125") =>
                    clock - locals[c][1].start_time < Deadline(c)
              /\ (pc[c] # "ret" /\ pc'[c] = "ret" /\ result'[c] = Returned(TRUE)) =>
                    (pc[c] = "L125" /\ Status = "completed")
              /\ (pc[c] # "ret" /\ pc'[c] = "ret" /\ result'[c] = Returned(FALSE)) =>
                    \/ pc[c] = "L125" /\ Status = "failed"
                    \/ pc[c] = "L124" /\ clock - locals[c][1].start_time >= Deadline(c)]_vars

\* C22: a program started as a script (module load, then main()) with
\* AUTO_INITIALIZE has at most one DrugPredictor instance, at most one
\* instance whose background build has been started, and at most one build
\* running.
C22_SingleInstance ==
    \A c \in Callers :
        (/\ call[c].op = "main"
         /\ call[c].as_script
         /\ call[c].auto_initialize
         /\ locals[c] # None) =>
            LET predictors == locals[c][1].predictors
            IN  /\ Len(predictors) <= 1
                /\ Cardinality({i \in 1..Len(predictors) :
                                   predictors[i].thread # "None"}) <= 1
                /\ Cardinality({i \in 1..Len(predictors) :
                                   predictors[i].status = "in_progress"}) <= 1

\* C23: the status is in_progress only while a thread holds the lock inside
\* the build, and every thread that takes the lock gives it up again, leaving
\* the status completed or failed.
C23_BuildTerminates ==
    /\ [](Status = "in_progress" => (lock # 0 /\ pc[lock] \in BuildPcs))
    /\ \A p \in Procs :
          (lock = p) ~> (lock = 0 /\ Status \in {"completed", "failed"})

\* a Thread is inside the encoder call of a build that is in progress
C23_Witness ==
    /\ lock \in Threads
    /\ pc[lock] = "L174"
    /\ Status = "in_progress"

====
